---- MODULE Spec2Model ----
(***************************************************************************)
(* Model of holmes89/go-common: the query-options parser (package query), *)
(* the single-table DynamoDB adapters (packages dynamo and database) and  *)
(* the REST exposition layer (package api).                               *)
(*                                                                         *)
(* Strings that the code takes apart (filter and sort tokens) are          *)
(* sequences of one-character strings, so that strings.Split is computed   *)
(* rather than assumed.  The empty string "" is the empty sequence << >>.  *)
(***************************************************************************)
EXTENDS Integers, Sequences, FiniteSets, TLC

VARIABLES
    pOffset,    \* ParseOpts argument offset
    pLimit,     \* ParseOpts argument limit (int32)
    pSort,      \* ParseOpts argument sort   ([]string)
    pFilter,    \* ParseOpts argument filter ([]string)
    pPc,        \* "input" before the call of ParseOpts, "returned" after it
    pResult,    \* what ParseOpts returned: [opts, err]
    db,         \* the DynamoDB service: whether the table exists, and its items
    call,       \* the adapter call made last: its arguments, its store operation, its result
    created,    \* history: per kind and identifier, the resource whose Create succeeded last
    req,        \* the HTTP request being served: its route, its handler's progress, its response
    creating,   \* per goroutine, the Create call it is making and how far it has got
    puts,       \* history: the items in the order their PutItem reached the store
    db0         \* history: the service as it was before the concurrent calls

parseVars == <<pOffset, pLimit, pSort, pFilter, pPc, pResult>>

storeVars == <<db, call, created>>

concVars == <<creating, puts, db0>>

vars == <<pOffset, pLimit, pSort, pFilter, pPc, pResult, db, call, created, req,
          creating, puts, db0>>

-----------------------------------------------------------------------------
(* Bounds of the model.                                                    *)

MaxTokLen == 3     \* longest token, in characters
MaxTokens == 2     \* most tokens in filter and sort together
MaxId == 2         \* identifiers are 1..MaxId
MaxProcs == 2      \* goroutines calling Create at the same time
MaxPartition == 11 \* most items of one partition when FindAll pages

Chars == {"a", ":"}

Colon == ":"

(* The int32 limits tried; the two ends of the int32 range are among them. *)
Limits == {-2147483647 - 1, -1, 0, 2147483647}

Offsets == {"x"}

-----------------------------------------------------------------------------
(* Go values used by package query.                                        *)

(* A Go map is nil or made; kv holds its entries. *)
NilMap == [nil |-> TRUE, kv |-> << >>]

EmptyMap == [nil |-> FALSE, kv |-> << >>]      \* make(map[...]...)

(* m[k] = v on a made Go map. *)
MapPut(m, k, v) ==
    [nil |-> FALSE,
     kv |-> [x \in (DOMAIN m.kv) \cup {k} |-> IF x = k THEN v ELSE m.kv[x]]]

(* The nil error; an error carries its message and the token it quotes. *)
NoErr == [msg |-> "", token |-> << >>]

SeqsUpTo(S, n) == UNION {[1..k -> S] : k \in 0..n}

Tokens == SeqsUpTo(Chars, MaxTokLen)

(* Index of the first ":" of s, 0 when there is none. *)
FirstColon(s) ==
    IF \E i \in 1..Len(s) : s[i] = Colon
    THEN CHOOSE i \in 1..Len(s) : s[i] = Colon /\ \A j \in 1..(i - 1) : s[j] # Colon
    ELSE 0

(* strings.Split(s, ":"): the parts of s between the colons; one part,    *)
(* s itself, when s holds no colon (also for s = "").                      *)
RECURSIVE Split(_)
Split(s) ==
    LET i == FirstColon(s)
    IN  IF i = 0 THEN <<s>>
        ELSE <<SubSeq(s, 1, i - 1)>> \o Split(SubSeq(s, i + 1, Len(s)))

(* uint64 values are four 16-bit limbs, most significant first: TLC's     *)
(* integers are too narrow for 2^64.                                       *)
Limb == 65536

U64(hi, mh, ml, lo) == <<hi, mh, ml, lo>>

(* uint64(limit) for an int32 limit: Go sign-extends, so a negative limit *)
(* becomes 2^64 + limit.                                                   *)
ToUint64(limit) ==
    IF limit >= 0
    THEN U64(0, 0, limit \div Limb, limit % Limb)
    ELSE LET low31 == (limit + 2147483647) + 1     \* limit + 2^31, in 0..2^31-1
         IN  U64(Limb - 1, Limb - 1, (low31 \div Limb) + (Limb \div 2), low31 % Limb)

(* The zero value Opts{}: nil maps, zero pagination. *)
ZeroOpts ==
    [Filter |-> NilMap, Sort |-> NilMap,
     Pagination |-> [Limit |-> U64(0, 0, 0, 0), Offset |-> "", LimitOverride |-> FALSE]]

FilterErr(f) == [msg |-> "invalid filter request", token |-> f]
SortErr(s)   == [msg |-> "invalid sort query", token |-> s]

(* cleanSlice: the elements of a that are not "". *)
RECURSIVE cleanSlice(_)
cleanSlice(a) ==
    IF a = << >> THEN << >>
    ELSE IF Head(a) # << >> THEN <<Head(a)>> \o cleanSlice(Tail(a))
         ELSE cleanSlice(Tail(a))

(* The filter loop without its test for "": a mutant of FilterLoop. *)
RECURSIVE FilterLoopNoSkip(_, _, _)
FilterLoopNoSkip(filter, i, filters) ==
    IF i > Len(filter) THEN [err |-> NoErr, map |-> filters]
    ELSE LET res == Split(filter[i])
         IN  IF Len(res) # 2 THEN [err |-> FilterErr(filter[i]), map |-> NilMap]
             ELSE FilterLoopNoSkip(filter, i + 1, MapPut(filters, res[1], res[2]))

(* The filter loop accepting two or more parts: a mutant of FilterLoop. *)
RECURSIVE FilterLoopAtLeastTwo(_, _, _)
FilterLoopAtLeastTwo(filter, i, filters) ==
    IF i > Len(filter) THEN [err |-> NoErr, map |-> filters]
    ELSE IF filter[i] = << >> THEN FilterLoopAtLeastTwo(filter, i + 1, filters)
    ELSE LET res == Split(filter[i])
         IN  IF Len(res) < 2 THEN [err |-> FilterErr(filter[i]), map |-> NilMap]
             ELSE FilterLoopAtLeastTwo(filter, i + 1, MapPut(filters, res[1], res[2]))

(* for _, f := range filter: from token i on, with the map built so far.  *)
RECURSIVE FilterLoop(_, _, _)
FilterLoop(filter, i, filters) ==
    IF i > Len(filter) THEN [err |-> NoErr, map |-> filters]
    ELSE IF filter[i] = << >> THEN FilterLoop(filter, i + 1, filters)
    ELSE LET res == Split(filter[i])
         IN  IF Len(res) # 2 THEN [err |-> FilterErr(filter[i]), map |-> NilMap]
             ELSE FilterLoop(filter, i + 1, MapPut(filters, res[1], res[2]))

(* The sort loop taking the last part as the direction: a mutant. *)
RECURSIVE SortLoopLastPart(_, _, _)
SortLoopLastPart(sort, i, sortParams) ==
    IF i > Len(sort) THEN [err |-> NoErr, map |-> sortParams]
    ELSE IF sort[i] = << >> THEN SortLoopLastPart(sort, i + 1, sortParams)
    ELSE LET out == Split(sort[i])
         IN  IF Len(out) < 2 THEN [err |-> SortErr(sort[i]), map |-> NilMap]
             ELSE SortLoopLastPart(sort, i + 1, MapPut(sortParams, out[1], out[Len(out)]))

(* for _, s := range cleanSlice(sort): called with the cleaned slice. *)
RECURSIVE SortLoop(_, _, _)
SortLoop(sort, i, sortParams) ==
    IF i > Len(sort) THEN [err |-> NoErr, map |-> sortParams]
    ELSE IF sort[i] = << >> THEN SortLoop(sort, i + 1, sortParams)
    ELSE LET out == Split(sort[i])
         IN  IF Len(out) < 2 THEN [err |-> SortErr(sort[i]), map |-> NilMap]
             ELSE SortLoop(sort, i + 1, MapPut(sortParams, out[1], out[2]))

(* The Pagination literal of ParseOpts. *)
MakePagination(offset, limit) ==
    [Limit |-> ToUint64(limit), Offset |-> offset, LimitOverride |-> limit < 0]

(* ParseOpts(ctx, offset, limit, sort, filter). *)
ParseOpts(offset, limit, sort, filter) ==
    LET fl == FilterLoop(filter, 1, EmptyMap)
    IN  IF fl.err # NoErr THEN [opts |-> ZeroOpts, err |-> fl.err]
        ELSE LET sl == SortLoop(cleanSlice(sort), 1, EmptyMap)
             IN  IF sl.err # NoErr THEN [opts |-> ZeroOpts, err |-> sl.err]
                 ELSE [opts |-> [Filter |-> fl.map, Sort |-> sl.map,
                                 Pagination |-> MakePagination(offset, limit)],
                       err |-> NoErr]

-----------------------------------------------------------------------------
(* Resources and their serialization contract.  The repository holds the  *)
(* interface Serializable[T] only; the kinds below follow the scenario of  *)
(* the specification: kind "item" has partition key "item" and sort key    *)
(* "item#<id>".  A sort key is the pair <<prefix, id>>.                    *)

Kinds == {"item", "special"}

(* Identifiers are the strings "1", "2", ...; IdRank orders them as the   *)
(* store orders sort keys of one partition.                                *)
Ids == {ToString(i) : i \in 1..MaxId}

MaxRank == IF MaxId > MaxPartition THEN MaxId ELSE MaxPartition

IdRank(id) == CHOOSE i \in 1..MaxRank : ToString(i) = id

(* The store compares sort keys as strings, byte by byte: "10" < "2".     *)
(* Digits(i) is the decimal string of i < 100, most significant first.     *)
Digits(i) == IF i < 10 THEN <<i>> ELSE <<i \div 10, i % 10>>

SortKeyLess(a, b) ==
    LET x == Digits(IdRank(a))
        y == Digits(IdRank(b))
    IN  \/ x[1] < y[1]
        \/ x[1] = y[1] /\ Len(x) < Len(y)
        \/ x[1] = y[1] /\ Len(x) = 2 /\ Len(y) = 2 /\ x[2] < y[2]

(* The identifiers of a partition large enough for FindAll to page. *)
ListIds == {ToString(i) : i \in 1..MaxPartition}

Names == {"widget", "gadget"}

(* The values of a resource type T, and its zero value. *)
Resources == [id : Ids, name : Names]

ZeroT == [id |-> "", name |-> ""]

(* T.PK(): the discriminator of the kind. *)
PK(kind) == kind

(* T.SK(p): p = << >> is the nil pointer (the receiver's own identifier), *)
(* p = <<id>> a pointer to id.                                             *)
SK(kind, t, p) == <<kind, IF p = << >> THEN t.id ELSE p[1]>>

(* dynamodb attribute maps.  nil: the nil map; valid: whether the item    *)
(* has the attributes Deserialize reads.                                   *)
NilItem == [nil |-> TRUE, valid |-> FALSE, PK |-> "", SK |-> << >>, id |-> "", name |-> ""]

(* T.Serialize(): the attribute map of t, or an error. *)
Serialize(kind, t, fails) ==
    IF fails THEN [item |-> NilItem, err |-> TRUE]
    ELSE [item |-> [nil |-> FALSE, valid |-> TRUE, PK |-> PK(kind),
                    SK |-> SK(kind, t, << >>), id |-> t.id, name |-> t.name],
          err |-> FALSE]

(* T.Deserialize(item): the nil map decodes to the zero value. *)
Deserialize(item) ==
    IF item.nil THEN [ret |-> ZeroT, err |-> FALSE]
    ELSE IF ~item.valid THEN [ret |-> ZeroT, err |-> TRUE]
    ELSE [ret |-> [id |-> item.id, name |-> item.name], err |-> FALSE]

(* T.DeserializeList(items). *)
DeserializeList(items) ==
    IF \E i \in 1..Len(items) : Deserialize(items[i]).err
    THEN [ret |-> << >>, err |-> TRUE]
    ELSE [ret |-> [i \in 1..Len(items) |-> Deserialize(items[i]).ret], err |-> FALSE]

(* An item some other writer left in the table, which T cannot decode. *)
ForeignItem ==
    [nil |-> FALSE, valid |-> FALSE, PK |-> "special",
     SK |-> <<"special", ToString(MaxId)>>, id |-> ToString(MaxId), name |-> ""]

-----------------------------------------------------------------------------
(* The DynamoDB client, as far as the adapters use it.  d is the service's *)
(* state [exists, items]; fault says that this request fails in transit.   *)

(* conf.TableName of the dynamo adapter. *)
TableName == "resources"

(* tableName of the database adapter: New never assigns it. *)
LegacyTableName == ""

Ok == "ok"
ResourceNotFoundException == "ResourceNotFoundException"
ValidationException == "ValidationException"
InternalServerError == "InternalServerError"

(* errors.As(err, &notfound) *)
IsNotFound(err) == err = ResourceNotFoundException

(* How the service answers a request before it looks at the items. *)
Refusal(d, tableName, fault) ==
    IF fault THEN InternalServerError
    ELSE IF tableName = "" THEN ValidationException
    ELSE IF ~d.exists THEN ResourceNotFoundException
    ELSE Ok

SameKey(a, b) == a.PK = b.PK /\ a.SK = b.SK

(* conn.db.GetItem *)
GetItem(d, tableName, key, fault) ==
    LET refusal == Refusal(d, tableName, fault)
        found == {it \in d.items : SameKey(it, key)}
    IN  IF refusal # Ok THEN [err |-> refusal, Item |-> NilItem]
        ELSE IF found = {} THEN [err |-> Ok, Item |-> NilItem]
        ELSE [err |-> Ok, Item |-> CHOOSE it \in found : TRUE]

(* The items of S by descending sort key. *)
RECURSIVE Descending(_)
Descending(S) ==
    IF S = {} THEN << >>
    ELSE LET top == CHOOSE x \in S : \A y \in S : ~SortKeyLess(x.SK[2], y.SK[2])
         IN  <<top>> \o Descending(S \ {top})

FirstN(q, n) == SubSeq(q, 1, IF Len(q) < n THEN Len(q) ELSE n)

(* conn.db.Query with KeyConditionExpression "PK = :key",                 *)
(* ScanIndexForward false and Limit limit.                                 *)
Query(d, tableName, pk, limit, fault) ==
    LET refusal == Refusal(d, tableName, fault)
    IN  IF refusal # Ok THEN [err |-> refusal, Items |-> << >>]
        ELSE [err |-> Ok,
              Items |-> FirstN(Descending({it \in d.items : it.PK = pk}), limit)]

ConditionalCheckFailedException == "ConditionalCheckFailedException"

(* PutItem with the condition attribute_not_exists(PK): a mutant. *)
PutItem_IfAbsent(d, tableName, item, fault) ==
    LET refusal == Refusal(d, tableName, fault)
    IN  IF refusal # Ok THEN [err |-> refusal, db |-> d]
        ELSE IF \E it \in d.items : SameKey(it, item)
        THEN [err |-> ConditionalCheckFailedException, db |-> d]
        ELSE [err |-> Ok, db |-> [d EXCEPT !.items = d.items \cup {item}]]

(* conn.db.PutItem: replaces the item of the same key, unconditionally. *)
PutItem(d, tableName, item, fault) ==
    LET refusal == Refusal(d, tableName, fault)
    IN  IF refusal # Ok THEN [err |-> refusal, db |-> d]
        ELSE [err |-> Ok,
              db |-> [d EXCEPT !.items =
                         {it \in d.items : ~SameKey(it, item)} \cup {item}]]

-----------------------------------------------------------------------------
(* The adapters.  A result carries what the call returned (ret or list,   *)
(* err), the store operations it issued (ops), the store's answer and the  *)
(* raw items (dbErr, items), and the service state after it (db).          *)

NoError == ""

QueryLimit == 10

Result(d, ops, dbErr, items, ret, list, err) ==
    [ret |-> ret, list |-> list, err |-> err,
     ops |-> ops, dbErr |-> dbErr, items |-> items, db |-> d]

(* FindByID with the identifier itself as the sort key: a mutant. *)
Conn_FindByID_RawKey(d, kind, id, fault) ==
    LET resp == GetItem(d, TableName, [PK |-> PK(kind), SK |-> <<"", id>>], fault)
    IN  IF resp.err # Ok
        THEN IF IsNotFound(resp.err)
             THEN Result(d, <<"GetItem">>, resp.err, << >>, ZeroT, << >>, NoError)
             ELSE Result(d, <<"GetItem">>, resp.err, << >>, ZeroT, << >>, "unable to fetch ")
        ELSE LET ds == Deserialize(resp.Item)
             IN  IF ds.err
                 THEN Result(d, <<"GetItem">>, Ok, <<resp.Item>>, ds.ret, << >>, "failed to scan ")
                 ELSE Result(d, <<"GetItem">>, Ok, <<resp.Item>>, ds.ret, << >>, NoError)

(* FindByID reporting an absent item as an error: a mutant. *)
Conn_FindByID_AbsentIsError(d, kind, id, fault) ==
    LET resp == GetItem(d, TableName,
                        [PK |-> PK(kind), SK |-> SK(kind, ZeroT, <<id>>)], fault)
    IN  IF resp.err # Ok \/ resp.Item.nil
        THEN Result(d, <<"GetItem">>, resp.err, << >>, ZeroT, << >>, "unable to fetch ")
        ELSE LET ds == Deserialize(resp.Item)
             IN  IF ds.err
                 THEN Result(d, <<"GetItem">>, Ok, <<resp.Item>>, ds.ret, << >>, "failed to scan ")
                 ELSE Result(d, <<"GetItem">>, Ok, <<resp.Item>>, ds.ret, << >>, NoError)

(* dynamo.Conn[T].FindByID(ctx, id) *)
Conn_FindByID(d, kind, id, fault) ==
    LET t == ZeroT
        resp == GetItem(d, TableName,
                        [PK |-> PK(kind), SK |-> SK(kind, t, <<id>>)], fault)
    IN  IF resp.err # Ok
        THEN IF IsNotFound(resp.err)
             THEN Result(d, <<"GetItem">>, resp.err, << >>, ZeroT, << >>, NoError)
             ELSE Result(d, <<"GetItem">>, resp.err, << >>, ZeroT, << >>, "unable to fetch ")
        ELSE LET ds == Deserialize(resp.Item)
             IN  IF ds.err
                 THEN Result(d, <<"GetItem">>, Ok, <<resp.Item>>, ds.ret, << >>, "failed to scan ")
                 ELSE Result(d, <<"GetItem">>, Ok, <<resp.Item>>, ds.ret, << >>, NoError)

(* FindAll without its key condition (a scan of the table): a mutant. *)
Conn_FindAll_NoKeyCondition(d, kind, filter, fault) ==
    LET refusal == Refusal(d, TableName, fault)
        items == FirstN(Descending(d.items), QueryLimit)
        dl == DeserializeList(items)
    IN  IF refusal # Ok
        THEN Result(d, <<"Query">>, refusal, << >>, ZeroT, << >>,
                    IF IsNotFound(refusal) THEN NoError ELSE "unable to fetch all ")
        ELSE Result(d, <<"Query">>, Ok, items, ZeroT, dl.ret,
                    IF dl.err THEN "unable to fetch all " ELSE NoError)

(* FindAll dropping its page size when the options say limitOverride: a  *)
(* mutant.                                                                 *)
Conn_FindAll_HonoursOverride(d, kind, filter, fault) ==
    LET limit == IF filter.Pagination.LimitOverride
                 THEN Cardinality(d.items) + 1 ELSE QueryLimit
        resp == Query(d, TableName, PK(kind), limit, fault)
        dl == DeserializeList(resp.Items)
    IN  IF resp.err # Ok
        THEN Result(d, <<"Query">>, resp.err, << >>, ZeroT, << >>,
                    IF IsNotFound(resp.err) THEN NoError ELSE "unable to fetch all ")
        ELSE Result(d, <<"Query">>, Ok, resp.Items, ZeroT, dl.ret,
                    IF dl.err THEN "unable to fetch all " ELSE NoError)

(* dynamo.Conn[T].FindAll(ctx, filter) *)
Conn_FindAll(d, kind, filter, fault) ==
    LET resp == Query(d, TableName, PK(kind), QueryLimit, fault)
    IN  IF resp.err # Ok
        THEN IF IsNotFound(resp.err)
             THEN Result(d, <<"Query">>, resp.err, << >>, ZeroT, << >>, NoError)
             ELSE Result(d, <<"Query">>, resp.err, << >>, ZeroT, << >>, "unable to fetch all ")
        ELSE LET dl == DeserializeList(resp.Items)
             IN  IF dl.err
                 THEN Result(d, <<"Query">>, Ok, resp.Items, ZeroT, dl.ret, "unable to fetch all ")
                 ELSE Result(d, <<"Query">>, Ok, resp.Items, ZeroT, dl.ret, NoError)

(* Create putting a second time when the first PutItem failed: a mutant. *)
Conn_Create_Retries(d, kind, r, serializeFails, fault) ==
    LET rs == Serialize(kind, r, serializeFails)
    IN  IF rs.err
        THEN Result(d, << >>, Ok, << >>, r, << >>, "failed to insert ")
        ELSE LET resp == PutItem(d, TableName, rs.item, fault)
                 again == PutItem(d, TableName, rs.item, FALSE)
             IN  IF resp.err = Ok
                 THEN Result(resp.db, <<"PutItem">>, Ok, << >>, r, << >>, NoError)
                 ELSE IF again.err # Ok
                 THEN Result(d, <<"PutItem", "PutItem">>, again.err, << >>, r, << >>,
                             "failed to insert ")
                 ELSE Result(again.db, <<"PutItem", "PutItem">>, Ok, << >>, r, << >>, NoError)

(* dynamo.Conn[T].Create(ctx, r) *)
Conn_Create(d, kind, r, serializeFails, fault) ==
    LET rs == Serialize(kind, r, serializeFails)
    IN  IF rs.err
        THEN Result(d, << >>, Ok, << >>, r, << >>, "failed to insert ")
        ELSE LET resp == PutItem(d, TableName, rs.item, fault)
             IN  IF resp.err # Ok
                 THEN Result(d, <<"PutItem">>, resp.err, << >>, r, << >>, "failed to insert ")
                 ELSE Result(resp.db, <<"PutItem">>, Ok, << >>, r, << >>, NoError)

(* r.Type() of the database adapter's typeable. *)
Type(kind) == kind

(* database.Conn[T].FindByID(ctx, id): the key is SK = id, ID = "". *)
Legacy_FindByID(d, kind, id, fault) ==
    LET resp == GetItem(d, LegacyTableName, [PK |-> "", SK |-> <<"", id>>], fault)
    IN  IF resp.err # Ok
        THEN IF IsNotFound(resp.err)
             THEN Result(d, <<"GetItem">>, resp.err, << >>, ZeroT, << >>, NoError)
             ELSE Result(d, <<"GetItem">>, resp.err, << >>, ZeroT, << >>, "unable to fetch ")
        ELSE LET ds == Deserialize(resp.Item)
             IN  IF ds.err
                 THEN Result(d, <<"GetItem">>, Ok, <<resp.Item>>, ds.ret, << >>, "failed to scan ")
                 ELSE Result(d, <<"GetItem">>, Ok, <<resp.Item>>, ds.ret, << >>, NoError)

(* database.Conn[T].Create(ctx, r): the item is entity{Entity: r, ID: r.Type()}, *)
(* which has no SK attribute.                                              *)
Legacy_Create(d, kind, r, marshalFails, fault) ==
    LET e == [nil |-> FALSE, valid |-> TRUE, PK |-> Type(kind), SK |-> << >>,
              id |-> r.id, name |-> r.name]
    IN  IF marshalFails
        THEN Result(d, << >>, Ok, << >>, r, << >>, "failed to insert ")
        ELSE LET resp == PutItem(d, LegacyTableName, e, fault)
             IN  IF resp.err # Ok
                 THEN Result(d, <<"PutItem">>, resp.err, << >>, r, << >>, "failed to insert ")
                 ELSE Result(resp.db, <<"PutItem">>, Ok, << >>, r, << >>, NoError)

-----------------------------------------------------------------------------
(* Package api.  A path is the sequence of its segments after the leading *)
(* slash: "/items" is <<"items">>, "/items/" is <<"items", "">>, "" is     *)
(* << >>.  A capability (repo, factory, svc) is the kind whose dynamo      *)
(* adapter it delegates to.                                                *)

IdVar == "{id}"

(* filepath.Join(path, elem): empty elements are dropped. *)
JoinPath(path, elem) == path \o <<elem>>

(* fmt.Sprintf("/%s", path): the segments of "/" followed by path. *)
SlashPath(path) == IF path = << >> THEN <<"">> ELSE path

(* FindByID handler mounted without the {id} segment: a mutant. *)
NewFindByIDHandler_NoIdSegment(name, path, repo) ==
    [name |-> name, Path |-> path, RequestType |-> "GET",
     does |-> "findByID", repo |-> repo]

NewFindByIDHandler(name, path, repo) ==
    [name |-> name, Path |-> JoinPath(path, IdVar), RequestType |-> "GET",
     does |-> "findByID", repo |-> repo]

NewFindAllHandler(name, path, repo) ==
    [name |-> name, Path |-> path, RequestType |-> "GET",
     does |-> "findAll", repo |-> repo]

NewCreateHandler(name, path, factory) ==
    [name |-> name, Path |-> path, RequestType |-> "POST",
     does |-> "create", repo |-> factory]

NoHandle ==
    [name |-> << >>, Path |-> << >>, RequestType |-> "", does |-> "none", repo |-> ""]

(* Handle.Mount() *)
HandleMount(h) == <<h.Path, h.RequestType, h>>

NewController(root, handlers) == [RootPath |-> root, Handlers |-> handlers]

NewCRUDController(name, path, svc) ==
    NewController(path,
        << NewCreateHandler(<<"createHandler", name>>, << >>, svc),
           NewFindByIDHandler(<<"findbyIDHandler", name>>, << >>, svc),
           NewFindAllHandler(<<"findAllHandler", name>>, << >>, svc) >>)

(* Control.Mount(mr): a route of mr with the path prefix "/" + RootPath,  *)
(* whose subrouter holds one route per handler, for the handler's method   *)
(* and OPTIONS, in the order of n.Handlers.                                *)
Mount(mr, n) ==
    Append(mr,
        [prefix |-> SlashPath(n.RootPath),
         routes |-> [i \in 1..Len(n.Handlers) |->
                       LET m == HandleMount(n.Handlers[i])
                       IN  [template |-> SlashPath(n.RootPath) \o SlashPath(m[1]),
                            methods |-> {m[2], "OPTIONS"},
                            handler |-> m[3],
                            controller |-> Len(mr) + 1]]])

(* NewRouter(controllers): every controller mounted, in order. *)
RECURSIVE MountAll(_, _)
MountAll(mr, controllers) ==
    IF controllers = << >> THEN mr
    ELSE MountAll(Mount(mr, Head(controllers)), Tail(controllers))

NewRouter(controllers) == MountAll(<< >>, controllers)

(* gorilla/mux matching of the routes registered above.  A route's path   *)
(* template is matched whole, {id} standing for one non-empty segment.     *)
TemplateMatches(template, path) ==
    /\ Len(template) = Len(path)
    /\ \A i \in 1..Len(template) :
          IF template[i] = IdVar THEN path[i] # "" ELSE template[i] = path[i]

TemplateVar(template, path) ==
    IF \E i \in 1..Len(template) : template[i] = IdVar
    THEN path[CHOOSE i \in 1..Len(template) : template[i] = IdVar]
    ELSE ""

PrefixMatches(prefix, path) ==
    Len(prefix) <= Len(path) /\ SubSeq(path, 1, Len(prefix)) = prefix

NoMatch(matchErr) ==
    [matched |-> FALSE, handler |-> NoHandle, controller |-> 0, id |-> "",
     matchErr |-> matchErr]

(* Router.Match of a subrouter: its routes in order; a route whose path   *)
(* matches and whose method does not leaves ErrMethodMismatch and the      *)
(* search goes on.                                                         *)
RECURSIVE SubrouterMatch(_, _, _, _, _)
SubrouterMatch(routes, i, method, path, matchErr) ==
    IF i > Len(routes) THEN NoMatch(matchErr)
    ELSE IF ~TemplateMatches(routes[i].template, path)
         THEN SubrouterMatch(routes, i + 1, method, path, matchErr)
    ELSE IF method \notin routes[i].methods
         THEN SubrouterMatch(routes, i + 1, method, path, "ErrMethodMismatch")
    ELSE [matched |-> TRUE, handler |-> routes[i].handler,
          controller |-> routes[i].controller,
          id |-> TemplateVar(routes[i].template, path), matchErr |-> ""]

(* Router.Match of the router: its prefix routes in mount order; the      *)
(* first one with a matching route wins.                                   *)
RECURSIVE RouterMatch(_, _, _, _, _)
RouterMatch(mr, i, method, path, matchErr) ==
    IF i > Len(mr) THEN NoMatch(matchErr)
    ELSE IF ~PrefixMatches(mr[i].prefix, path)
         THEN RouterMatch(mr, i + 1, method, path, matchErr)
    ELSE LET m == SubrouterMatch(mr[i].routes, 1, method, path, matchErr)
         IN  IF m.matched THEN m
             ELSE RouterMatch(mr, i + 1, method, path, m.matchErr)

StatusOK == 200
StatusBadRequest == 400
StatusNotFound == 404
StatusMethodNotAllowed == 405
StatusInternalServerError == 500

NoResponse == [status |-> 0, ctype |-> "", text |-> "", shape |-> "none", payload |-> << >>]

(* http.Error(w, msg, code): a plain-text body of msg. *)
HttpError(msg, code) ==
    [status |-> code, ctype |-> "text/plain; charset=utf-8", text |-> msg,
     shape |-> "none", payload |-> << >>]

(* EncodeJSONResponse(ctx, w, response): shape is "object" or "array". *)
EncodeJSONResponse(shape, payload) ==
    [status |-> StatusOK, ctype |-> "application/json; charset=utf-8", text |-> "",
     shape |-> shape, payload |-> payload]

(* Router.ServeHTTP: the handler of the request, or mux's 405 or 404. *)
ServeHTTP(mr, method, path) ==
    LET m == RouterMatch(mr, 1, method, path, "")
    IN  IF m.matched THEN [m EXCEPT !.matchErr = ""]
        ELSE m

RouterResponse(m) ==
    IF m.matchErr = "ErrMethodMismatch"
    THEN HttpError("", StatusMethodNotAllowed)
    ELSE HttpError("404 page not found", StatusNotFound)

(* A request body: valid JSON of a resource, or not JSON. *)
Bodies == {[json |-> FALSE, value |-> ZeroT]} \cup {[json |-> TRUE, value |-> r] : r \in Resources}

NoBody == [json |-> FALSE, value |-> ZeroT]

(* extractBody[T](r) *)
extractBody(body, readFails) ==
    IF readFails THEN [resource |-> ZeroT, err |-> "unable to read body"]
    ELSE IF ~body.json THEN [resource |-> ZeroT, err |-> "unable to unmarshal body"]
    ELSE [resource |-> body.value, err |-> NoError]

(* The create handler going on to the capability after a failed decode    *)
(* (a missing return): a mutant.                                           *)
CreateHandler_OnBody_NoReturn(dec) ==
    IF dec.err # NoError
    THEN [call |-> TRUE, resp |-> HttpError("invalid resource", StatusBadRequest)]
    ELSE [call |-> TRUE, resp |-> NoResponse]

(* The create handler after extractBody: respond 400 and return, or go on *)
(* to factory.Create.                                                      *)
CreateHandler_OnBody(dec) ==
    IF dec.err # NoError
    THEN [call |-> FALSE, resp |-> HttpError("invalid resource", StatusBadRequest)]
    ELSE [call |-> TRUE, resp |-> NoResponse]

(* A handler writing the capability's error to the client: a mutant. *)
Handler_OnResult_LeaksError(does, res) ==
    IF res.err # NoError
    THEN HttpError(res.err, StatusInternalServerError)
    ELSE IF does = "findAll" THEN EncodeJSONResponse("array", res.list)
         ELSE EncodeJSONResponse("object", <<res.ret>>)

(* A handler after its capability call returned res: 500 with the         *)
(* handler's message, or the JSON of the result.                           *)
Handler_OnResult(does, res) ==
    IF res.err # NoError
    THEN HttpError(IF does = "create" THEN "unable to create resource"
                                      ELSE "unable to find resource",
                   StatusInternalServerError)
    ELSE IF does = "findAll" THEN EncodeJSONResponse("array", res.list)
         ELSE EncodeJSONResponse("object", <<res.ret>>)

-----------------------------------------------------------------------------
(* The parser as a state machine: the arguments are drawn, then the call. *)

NoResult == [opts |-> ZeroOpts, err |-> NoErr]

Conns == {"dynamo", "database"}

NoCall ==
    [conn |-> "none", op |-> "none", kind |-> "", id |-> "", r |-> ZeroT,
     filter |-> ZeroOpts, res |-> Result([exists |-> FALSE, items |-> {}],
                                         << >>, Ok, << >>, ZeroT, << >>, NoError)]

(* No request is being served. *)
IdleReq ==
    [pc |-> "idle", method |-> "", path |-> << >>, body |-> NoBody,
     handler |-> NoHandle, controller |-> 0, id |-> "",
     dec |-> [resource |-> ZeroT, err |-> NoError],
     resp |-> NoResponse, log |-> << >>]

(* A goroutine's Create call: pc is "idle" before the call, "serialized"  *)
(* between r.Serialize() and PutItem, "returned" after the call.           *)
Procs == 1..MaxProcs

IdleCreate ==
    [pc |-> "idle", kind |-> "", r |-> ZeroT, item |-> NilItem,
     replaced |-> FALSE, dbErr |-> Ok, err |-> NoError]

ConcIdle == creating = [p \in Procs |-> IdleCreate] /\ puts = << >>
            /\ db0 = [exists |-> FALSE, items |-> {}]

ParseIdle == pOffset = "" /\ pLimit = 0 /\ pSort = << >> /\ pFilter = << >>
             /\ pPc = "off" /\ pResult = NoResult

StoreIdle == db = [exists |-> FALSE, items |-> {}] /\ call = NoCall
             /\ created = [k \in Conns \X Kinds \X Ids |-> << >>]

ParseInit ==
    /\ ConcIdle
    /\ pOffset \in Offsets
    /\ pLimit \in Limits
    /\ pSort \in SeqsUpTo(Tokens, MaxTokens)
    /\ pFilter \in SeqsUpTo(Tokens, MaxTokens - Len(pSort))
    /\ pPc = "input"
    /\ pResult = NoResult
    /\ StoreIdle
    /\ req = IdleReq

ParseOptsCall ==
    /\ pPc = "input"
    /\ pResult' = ParseOpts(pOffset, pLimit, pSort, pFilter)
    /\ pPc' = "returned"
    /\ UNCHANGED <<pOffset, pLimit, pSort, pFilter>>
    /\ UNCHANGED <<storeVars, req, concVars>>

ParseNext == ParseOptsCall

SpecParse == ParseInit /\ [][ParseNext]_vars

-----------------------------------------------------------------------------
(* The adapters as a state machine: one call after the other on a table   *)
(* that exists or not, and that may hold an item of another writer.       *)

(* The QueryOptions handed to FindAll. *)
FilterChoices == {ZeroOpts, ParseOpts("x", -1, << <<"a", ":", "a">> >>, << >>).opts}

(* The kinds the database adapter is called with. *)
LegacyKinds == {"item"}

StoreInit ==
    /\ ConcIdle
    /\ ParseIdle
    /\ db \in {[exists |-> FALSE, items |-> {}],
               [exists |-> TRUE, items |-> {}],
               [exists |-> TRUE, items |-> {ForeignItem}]}
    /\ call = NoCall
    /\ created = [k \in Conns \X Kinds \X Ids |-> << >>]
    /\ req = IdleReq

CallRecord(conn, op, kind, id, r, filter, res) ==
    [conn |-> conn, op |-> op, kind |-> kind, id |-> id, r |-> r,
     filter |-> filter, res |-> res]

(* The history of successful Creates after a call. *)
Remember(c) ==
    IF c.op = "Create" /\ c.res.err = NoError
    THEN [created EXCEPT ![<<c.conn, c.kind, c.r.id>>] = <<c.r>>]
    ELSE created

FindByID ==
    \E kind \in Kinds, id \in Ids, fault \in BOOLEAN :
        /\ call' = CallRecord("dynamo", "FindByID", kind, id, ZeroT, ZeroOpts,
                              Conn_FindByID(db, kind, id, fault))
        /\ db' = call'.res.db
        /\ created' = created
        /\ UNCHANGED <<parseVars, req, concVars>>

FindAll ==
    \E kind \in Kinds, filter \in FilterChoices, fault \in BOOLEAN :
        /\ call' = CallRecord("dynamo", "FindAll", kind, "", ZeroT, filter,
                              Conn_FindAll(db, kind, filter, fault))
        /\ db' = call'.res.db
        /\ created' = created
        /\ UNCHANGED <<parseVars, req, concVars>>

Create ==
    \E kind \in Kinds, r \in Resources, serializeFails \in BOOLEAN, fault \in BOOLEAN :
        /\ ~(serializeFails /\ fault)
        /\ call' = CallRecord("dynamo", "Create", kind, r.id, r, ZeroOpts,
                              Conn_Create(db, kind, r, serializeFails, fault))
        /\ db' = call'.res.db
        /\ created' = Remember(call')
        /\ UNCHANGED <<parseVars, req, concVars>>

LegacyFindByID ==
    \E kind \in LegacyKinds, id \in Ids, fault \in BOOLEAN :
        /\ call' = CallRecord("database", "FindByID", kind, id, ZeroT, ZeroOpts,
                              Legacy_FindByID(db, kind, id, fault))
        /\ db' = call'.res.db
        /\ created' = created
        /\ UNCHANGED <<parseVars, req, concVars>>

LegacyCreate ==
    \E kind \in LegacyKinds, r \in Resources, marshalFails \in BOOLEAN, fault \in BOOLEAN :
        /\ ~(marshalFails /\ fault)
        /\ call' = CallRecord("database", "Create", kind, r.id, r, ZeroOpts,
                              Legacy_Create(db, kind, r, marshalFails, fault))
        /\ db' = call'.res.db
        /\ created' = Remember(call')
        /\ UNCHANGED <<parseVars, req, concVars>>

StoreNext ==
    \/ FindByID
    \/ FindAll
    \/ Create
    \/ LegacyFindByID
    \/ LegacyCreate

Spec == StoreInit /\ [][StoreNext]_vars

-----------------------------------------------------------------------------
(* Concurrent Create calls of the dynamo adapter.  Each goroutine makes   *)
(* one call; a call is two steps, r.Serialize() and then PutItem, and the  *)
(* store serves one PutItem at a time.  The adapter holds no lock.         *)

(* An item of kind "item" that is in the table before the calls. *)
ExistingItem == Serialize("item", [id |-> "1", name |-> "widget"], FALSE).item

ConcInit ==
    /\ ParseIdle
    /\ db \in {[exists |-> FALSE, items |-> {}]}
               \cup {[exists |-> TRUE, items |-> S] : S \in SUBSET {ForeignItem, ExistingItem}}
    /\ call = NoCall
    /\ created = [k \in Conns \X Kinds \X Ids |-> << >>]
    /\ req = IdleReq
    /\ creating = [p \in Procs |-> IdleCreate]
    /\ puts = << >>
    /\ db0 = db

(* Create, up to the return on a serialization error. *)
CreateSerialize(p) ==
    /\ creating[p].pc = "idle"
    /\ \E kind \in Kinds, r \in Resources, serializeFails \in BOOLEAN :
          LET rs == Serialize(kind, r, serializeFails)
          IN  creating' = [creating EXCEPT ![p] =
                  IF rs.err
                  THEN [@ EXCEPT !.pc = "returned", !.kind = kind, !.r = r,
                                 !.err = "failed to insert "]
                  ELSE [@ EXCEPT !.pc = "serialized", !.kind = kind, !.r = r,
                                 !.item = rs.item]]
    /\ UNCHANGED <<parseVars, storeVars, req, puts, db0>>

(* Create, from PutItem to its return. *)
CreatePutItem(p) ==
    /\ creating[p].pc = "serialized"
    /\ \E fault \in BOOLEAN :
          LET resp == PutItem(db, TableName, creating[p].item, fault)
          IN  /\ db' = resp.db
              /\ puts' = IF resp.err = Ok THEN Append(puts, creating[p].item) ELSE puts
              /\ creating' = [creating EXCEPT ![p] =
                     [@ EXCEPT !.pc = "returned",
                               !.replaced = \E it \in db.items : SameKey(it, creating[p].item),
                               !.dbErr = resp.err,
                               !.err = IF resp.err # Ok THEN "failed to insert " ELSE NoError]]
    /\ UNCHANGED <<parseVars, call, created, req, db0>>

ConcNext ==
    \/ \E p \in Procs : CreateSerialize(p)
    \/ \E p \in Procs : CreatePutItem(p)

SpecConc == ConcInit /\ [][ConcNext]_vars

-----------------------------------------------------------------------------
(* FindAll on a partition that grows past the page size: Creates of kind  *)
(* "item" fill the partition, FindAll is called with any of ListOptions.   *)
(* The callers hand out identifiers in succession: "1", then "2", ...; a   *)
(* Create may also overwrite an identifier already in use.                 *)

(* QueryOptions that differ in filter, sort, limit, limitOverride, offset. *)
ListOptions ==
    FilterChoices \cup {ParseOpts("x", 1, << >>, << <<"a", ":", "a">> >>).opts}

ListInit ==
    /\ ConcIdle
    /\ ParseIdle
    /\ db = [exists |-> TRUE, items |-> {}]
    /\ call = NoCall
    /\ created = [k \in Conns \X Kinds \X Ids |-> << >>]
    /\ req = IdleReq

ListCreate ==
    \E id \in ListIds :
        LET r == [id |-> id, name |-> "widget"]
        IN  /\ \A j \in ListIds :
                  IdRank(j) < IdRank(id) => \E it \in db.items : it.id = j
            /\ call' = CallRecord("dynamo", "Create", "item", id, r, ZeroOpts,
                                  Conn_Create(db, "item", r, FALSE, FALSE))
            /\ db' = call'.res.db
            /\ UNCHANGED <<parseVars, created, req, concVars>>

ListFindAll ==
    \E kind \in Kinds, filter \in ListOptions, fault \in BOOLEAN :
        /\ call' = CallRecord("dynamo", "FindAll", kind, "", ZeroT, filter,
                              Conn_FindAll(db, kind, filter, fault))
        /\ db' = call'.res.db
        /\ UNCHANGED <<parseVars, created, req, concVars>>

ListNext ==
    \/ ListCreate
    \/ ListFindAll

SpecList == ListInit /\ [][ListNext]_vars

-----------------------------------------------------------------------------
(* The REST layer as a state machine: the router of two CRUD controllers, *)
(* "items" mounted before "items/special", serves one request after the    *)
(* other; each handler runs step by step.                                  *)

Controllers ==
    << NewCRUDController("Item", <<"items">>, "item"),
       NewCRUDController("Special", <<"items", "special">>, "special") >>

Router == NewRouter(Controllers)

Methods == {"GET", "POST", "DELETE"}

Paths ==
    {<<"items">>, <<"items", "">>, <<"items", "special">>, <<"items", "special", "">>,
     <<"other">>}
    \cup {<<"items", id>> : id \in Ids}
    \cup {<<"items", "special", id>> : id \in Ids}

RestInit ==
    /\ ConcIdle
    /\ ParseIdle
    /\ db \in {[exists |-> FALSE, items |-> {}],
               [exists |-> TRUE, items |-> {}],
               [exists |-> TRUE, items |-> {ForeignItem}]}
    /\ call = NoCall
    /\ created = [k \in Conns \X Kinds \X Ids |-> << >>]
    /\ req = IdleReq

(* Router.ServeHTTP: the request is matched and its handler entered, or   *)
(* the router answers 404 or 405 itself.                                   *)
Receive ==
    /\ req.pc = "idle"
    /\ \E method \in Methods, path \in Paths, body \in Bodies :
         /\ (method # "POST" => body = NoBody)
         /\ LET m == ServeHTTP(Router, method, path)
            IN  req' = [IdleReq EXCEPT
                          !.method = method, !.path = path, !.body = body,
                          !.handler = m.handler, !.controller = m.controller,
                          !.id = m.id,
                          !.pc = IF m.matched THEN "handler" ELSE "done",
                          !.resp = IF m.matched THEN NoResponse ELSE RouterResponse(m)]
    /\ UNCHANGED <<parseVars, storeVars, concVars>>

(* The create handler reads and decodes the body. *)
ExtractBody ==
    /\ req.pc = "handler" /\ req.handler.does = "create"
    /\ \E readFails \in BOOLEAN :
         LET dec == extractBody(req.body, readFails)
             out == CreateHandler_OnBody(dec)
         IN  req' = [req EXCEPT !.dec = dec, !.resp = out.resp,
                                !.log = Append(@, "decode"),
                                !.pc = IF out.call THEN "decoded" ELSE "done"]
    /\ UNCHANGED <<parseVars, storeVars, concVars>>

(* factory.Create(ctx, resource) *)
CallCreate ==
    /\ req.pc = "decoded"
    /\ \E serializeFails \in BOOLEAN, fault \in BOOLEAN :
         /\ ~(serializeFails /\ fault)
         /\ call' = CallRecord("dynamo", "Create", req.handler.repo,
                               req.dec.resource.id, req.dec.resource, ZeroOpts,
                               Conn_Create(db, req.handler.repo, req.dec.resource,
                                           serializeFails, fault))
         /\ db' = call'.res.db
         /\ created' = Remember(call')
    /\ req' = [req EXCEPT !.log = Append(@, "call"), !.pc = "called"]
    /\ UNCHANGED <<parseVars, concVars>>

(* repo.FindByID(ctx, id) with the id of the path. *)
CallFindByID ==
    /\ req.pc = "handler" /\ req.handler.does = "findByID"
    /\ \E fault \in BOOLEAN :
         call' = CallRecord("dynamo", "FindByID", req.handler.repo, req.id, ZeroT,
                            ZeroOpts, Conn_FindByID(db, req.handler.repo, req.id, fault))
    /\ req' = [req EXCEPT !.log = Append(@, "call"), !.pc = "called"]
    /\ UNCHANGED <<parseVars, db, created, concVars>>

(* repo.FindAll(ctx, query.Opts{}) *)
CallFindAll ==
    /\ req.pc = "handler" /\ req.handler.does = "findAll"
    /\ \E fault \in BOOLEAN :
         call' = CallRecord("dynamo", "FindAll", req.handler.repo, "", ZeroT,
                            ZeroOpts, Conn_FindAll(db, req.handler.repo, ZeroOpts, fault))
    /\ req' = [req EXCEPT !.log = Append(@, "call"), !.pc = "called"]
    /\ UNCHANGED <<parseVars, db, created, concVars>>

(* The handler writes its response: http.Error or EncodeJSONResponse.  A  *)
(* status already written stays (net/http keeps the first WriteHeader).    *)
Respond ==
    /\ req.pc = "called"
    /\ LET out == Handler_OnResult(req.handler.does, call.res)
       IN  req' = [req EXCEPT
                     !.resp = IF req.resp.status # 0 THEN req.resp ELSE out,
                     !.log = Append(@, IF out.status = StatusOK THEN "encode" ELSE "error"),
                     !.pc = "done"]
    /\ UNCHANGED <<parseVars, storeVars, concVars>>

(* The response is sent; the next request may come. *)
Finish ==
    /\ req.pc = "done"
    /\ req' = IdleReq
    /\ call' = NoCall
    /\ UNCHANGED <<parseVars, db, created, concVars>>

RestNext ==
    \/ Receive
    \/ ExtractBody
    \/ CallCreate
    \/ CallFindByID
    \/ CallFindAll
    \/ Respond
    \/ Finish

SpecRest == RestInit /\ [][RestNext]_vars

-----------------------------------------------------------------------------
(* Properties of ParseOpts.  The readings of a token used below are       *)
(* computed from the positions of its colons, not with Split.             *)

ColonPositions(t) == {i \in 1..Len(t) : t[i] = Colon}

ColonCount(t) == Cardinality(ColonPositions(t))

(* The k-th colon of t (k >= 1), and the end of t when it has fewer. *)
NthColon(t, k) ==
    IF ColonCount(t) >= k
    THEN CHOOSE i \in ColonPositions(t) :
             Cardinality({j \in ColonPositions(t) : j < i}) = k - 1
    ELSE Len(t) + 1

FieldOf(t) == SubSeq(t, 1, NthColon(t, 1) - 1)

SecondOf(t) == SubSeq(t, NthColon(t, 1) + 1, NthColon(t, 2) - 1)

(* Token i is the last of toks that names its field, among those ok(). *)
LastForField(toks, i, ok(_)) ==
    \A j \in (i + 1)..Len(toks) : ok(toks[j]) => FieldOf(toks[j]) # FieldOf(toks[i])

WellFormedFilter(t) == ColonCount(t) = 1

WellFormedSort(t) == ColonCount(t) >= 1

Strip(toks) == SelectSeq(toks, LAMBDA t : t # << >>)

Returned == pPc = "returned"

Parsed == Returned /\ pResult.err = NoErr

(* Every well-formed filter token f:v of a successful parse is in the      *)
(* returned filter (the last token of a field gives the field's value).    *)
FilterEntriesKept ==
    Parsed =>
        \A i \in 1..Len(pFilter) :
            (WellFormedFilter(pFilter[i]) /\ LastForField(pFilter, i, WellFormedFilter))
                => /\ FieldOf(pFilter[i]) \in DOMAIN pResult.opts.Filter.kv
                   /\ pResult.opts.Filter.kv[FieldOf(pFilter[i])] = SecondOf(pFilter[i])

(* C3 as stated: a well-formed filter token f:v gives filter[f] = v, and   *)
(* every filter token that does not hold exactly one colon makes ParseOpts *)
(* fail with a parse error and return no options.                          *)
C3_AsStated ==
    /\ FilterEntriesKept
    /\ (Returned /\ \E i \in 1..Len(pFilter) : ~WellFormedFilter(pFilter[i]))
           => (pResult.err # NoErr /\ pResult.opts = ZeroOpts)

(* C3, amended: a well-formed filter token f:v gives filter[f] = v; every  *)
(* NON-EMPTY filter token that does not hold exactly one colon makes       *)
(* ParseOpts fail with the filter error for the first such token and       *)
(* return the zero options; an empty token is skipped and fails nothing.   *)
C3_FilterParsing ==
    /\ FilterEntriesKept
    /\ Parsed => DOMAIN pResult.opts.Filter.kv =
                    {FieldOf(pFilter[i]) : i \in {j \in 1..Len(pFilter) : pFilter[j] # << >>}}
    /\ Returned =>
         LET bad == {i \in 1..Len(pFilter) :
                        pFilter[i] # << >> /\ ~WellFormedFilter(pFilter[i])}
         IN  IF bad # {}
             THEN /\ pResult.opts = ZeroOpts
                  /\ pResult.err =
                        FilterErr(pFilter[CHOOSE i \in bad : \A j \in bad : i <= j])
             ELSE pResult.err.msg # "invalid filter request"

C3_Witness ==
    /\ Parsed
    /\ Len(pFilter) = 2
    /\ pFilter[1] = << >>
    /\ WellFormedFilter(pFilter[2])
    /\ pResult.opts.Filter.kv[FieldOf(pFilter[2])] = SecondOf(pFilter[2])

(* C4: a sort token f:d or f:d:extra... gives sort[f] = d (the last token  *)
(* of a field gives the field's direction), parts after the second are     *)
(* ignored and cause no error, and a non-empty sort token with no colon    *)
(* makes ParseOpts fail with a parse error.                                *)
C4_SortParsing ==
    /\ Parsed =>
         \A i \in 1..Len(pSort) :
            (WellFormedSort(pSort[i]) /\ LastForField(pSort, i, WellFormedSort))
                => /\ FieldOf(pSort[i]) \in DOMAIN pResult.opts.Sort.kv
                   /\ pResult.opts.Sort.kv[FieldOf(pSort[i])] = SecondOf(pSort[i])
    /\ (Returned /\ \E i \in 1..Len(pSort) : pSort[i] # << >> /\ ColonCount(pSort[i]) = 0)
           => (pResult.err # NoErr /\ pResult.opts = ZeroOpts)
    /\ (Returned /\ \A i \in 1..Len(pSort) : pSort[i] = << >> \/ WellFormedSort(pSort[i]))
           => pResult.err.msg # "invalid sort query"

C4_Witness ==
    /\ Parsed
    /\ \E i \in 1..Len(pSort) :
          /\ ColonCount(pSort[i]) >= 2
          /\ SecondOf(pSort[i]) # SubSeq(pSort[i], NthColon(pSort[i], 2) + 1, Len(pSort[i]))
          /\ pResult.opts.Sort.kv[FieldOf(pSort[i])] = SecondOf(pSort[i])

(* The uint64 u is the number n. *)
U64IsInt(u, n) ==
    /\ n >= 0
    /\ u[1] = 0 /\ u[2] = 0
    /\ u[3] = n \div Limb /\ u[4] = n % Limb

(* C5 as stated: a negative limit gives limitOverride = true and a         *)
(* pagination.limit equal to the raw negative value; a limit >= 0 gives    *)
(* limitOverride = false and a pagination.limit equal to the limit.        *)
C5_AsStated ==
    Parsed =>
        /\ pResult.opts.Pagination.LimitOverride = (pLimit < 0)
        /\ U64IsInt(pResult.opts.Pagination.Limit, pLimit)

(* What the code does with the limit: the override flag is as claimed, a   *)
(* limit >= 0 is kept, and a negative limit is stored as 2^64 + limit.     *)
PaginationAsCoded ==
    Parsed =>
        /\ pResult.opts.Pagination.LimitOverride = (pLimit < 0)
        /\ pResult.opts.Pagination.Offset = pOffset
        /\ pLimit >= 0 => U64IsInt(pResult.opts.Pagination.Limit, pLimit)
        /\ pLimit = -1 =>
              pResult.opts.Pagination.Limit = U64(Limb - 1, Limb - 1, Limb - 1, Limb - 1)

(* What a caller can tell two results of ParseOpts apart by, pagination    *)
(* aside.                                                                  *)
Outcome(r) == [err |-> r.err, Filter |-> r.opts.Filter, Sort |-> r.opts.Sort]

(* C6: empty-string tokens are ignored: the outcome of ParseOpts (success  *)
(* or the parse error) and the filter and sort it returns are those of the *)
(* same call without the "" tokens, and sequences holding only "" tokens   *)
(* parse to empty mappings.                                                *)
C6_EmptyTokensIgnored ==
    Returned =>
        /\ Outcome(pResult) =
              Outcome(ParseOpts(pOffset, pLimit, Strip(pSort), Strip(pFilter)))
        /\ (Strip(pSort) = << >> /\ Strip(pFilter) = << >>)
              => /\ pResult.err = NoErr
                 /\ pResult.opts.Filter = EmptyMap
                 /\ pResult.opts.Sort = EmptyMap

C6_Witness ==
    /\ Parsed
    /\ pFilter = << << >> >>
    /\ pSort = << << >> >>
    /\ pResult.opts.Filter = EmptyMap
    /\ pResult.opts.Sort = EmptyMap

-----------------------------------------------------------------------------
(* Properties of the adapters.                                             *)

(* The store answered the call's request: it did not fail in transit. *)
Answered == call.res.dbErr \in {Ok, ResourceNotFoundException}

(* The resource whose Create succeeded last under the call's identifier. *)
LastCreated == created[<<call.conn, call.kind, call.id>>]

(* The items stored for the call's kind, told by their attributes. *)
StoredOfKind == {it \in db.items : it.PK = call.kind}

(* C1: round trip.  Whenever a Create of r has succeeded (after any other  *)
(* calls), a FindByID with r's identifier that the store answers returns   *)
(* r and no error.                                                         *)
C1_RoundTrip ==
    (call.op = "FindByID" /\ LastCreated # << >> /\ Answered)
        => (call.res.err = NoError /\ call.res.ret = LastCreated[1])

C1_Witness ==
    /\ call.conn = "dynamo" /\ call.op = "FindByID" /\ call.kind = "item"
    /\ LastCreated # << >>
    /\ call.res.err = NoError
    /\ call.res.ret = LastCreated[1]
    /\ \E it \in db.items : it.PK = "special" /\ it.valid /\ it.id = call.id
    /\ \E it \in db.items : it.PK = "item" /\ it.id # call.id

(* The database adapter never completes a call: its table name is empty. *)
LegacyAlwaysFails ==
    call.conn = "database" => (call.res.err # NoError /\ db = call.res.db)

(* C2: a FindByID of the dynamo adapter for an identifier under which no   *)
(* item is stored, when the store answers, returns the zero value and no   *)
(* error, whatever else the table holds.                                   *)
C2_AbsentIsZero ==
    (/\ call.conn = "dynamo" /\ call.op = "FindByID"
     /\ ~\E it \in StoredOfKind : it.id = call.id
     /\ Answered)
        => (call.res.err = NoError /\ call.res.ret = ZeroT)

C2_Witness ==
    /\ call.conn = "dynamo" /\ call.op = "FindByID" /\ call.kind = "item"
    /\ call.res.dbErr = Ok
    /\ ~\E it \in StoredOfKind : it.id = call.id
    /\ \E it \in StoredOfKind : it.id # call.id
    /\ \E it \in db.items : it.PK = "special" /\ it.id = call.id
    /\ call.res.err = NoError /\ call.res.ret = ZeroT

-----------------------------------------------------------------------------
(* Properties of concurrent Creates.                                       *)

(* The storage keys of the model. *)
StorageKeys == {[PK |-> PK(kind), SK |-> SK(kind, ZeroT, <<id>>)] : kind \in Kinds, id \in Ids}

(* The positions in puts of the puts under key k. *)
PutsUnder(k) == {i \in 1..Len(puts) : SameKey(puts[i], k)}

(* The item put last under key k. *)
LastPut(k) == puts[CHOOSE i \in PutsUnder(k) : \A j \in PutsUnder(k) : j <= i]

AllReturned == \A p \in Procs : creating[p].pc = "returned"

(* C11: last overwrite-put wins.  In every interleaving of concurrent      *)
(* Creates, a Create fails only when its serialization fails or the store  *)
(* refuses the request as such (no table, a failure in transit), never     *)
(* because an item is stored under its key; and under every key the table  *)
(* holds exactly the item put last, or, with no put under the key, what it *)
(* held before the calls.  This holds at every moment, so also once all    *)
(* calls have returned.                                                    *)
C11_LastPutWins ==
    /\ \A p \in Procs :
          creating[p].pc = "returned" =>
              /\ creating[p].dbErr \in {Ok, ResourceNotFoundException, InternalServerError}
              /\ (creating[p].err # NoError) <=>
                    (creating[p].item.nil \/ creating[p].dbErr # Ok)
    /\ \A k \in StorageKeys :
          {it \in db.items : SameKey(it, k)} =
              IF PutsUnder(k) # {} THEN {LastPut(k)}
              ELSE {it \in db0.items : SameKey(it, k)}

(* Two Creates of different resources under the key of an item that was    *)
(* already stored: both returned no error, the resource put last is the    *)
(* one stored, and the item of the other kind is as it was.                *)
C11_Witness ==
    /\ AllReturned
    /\ Len(puts) = 2
    /\ SameKey(puts[1], puts[2]) /\ puts[1] # puts[2]
    /\ SameKey(puts[1], ExistingItem) /\ ExistingItem \in db0.items
    /\ \A p \in Procs : creating[p].err = NoError /\ creating[p].replaced
    /\ {it \in db.items : SameKey(it, puts[2])} = {puts[2]}
    /\ puts[2] # ExistingItem
    /\ ForeignItem \in db0.items /\ ForeignItem \in db.items

-----------------------------------------------------------------------------
(* Properties of FindAll's paging.                                         *)

(* How many items of the call's partition have a greater sort key than it. *)
Above(it) == Cardinality({o \in StoredOfKind : SortKeyLess(it.SK[2], o.SK[2])})

(* C12: FindAll ignores its QueryOptions.  On the same store, FindAll with *)
(* any other options returns what this call returned; when the store       *)
(* answers, that is the partition's items by descending sort key, cut      *)
(* after the first 10: the item at position i has i - 1 items above it,    *)
(* and an item with 10 or more items above it is not returned.             *)
C12_FindAllIgnoresOptions ==
    (call.conn = "dynamo" /\ call.op = "FindAll") =>
        /\ \A f \in ListOptions :
              Conn_FindAll(db, call.kind, f, call.res.dbErr = InternalServerError)
                  = call.res
        /\ call.res.dbErr = Ok =>
              /\ call.res.err = NoError
              /\ Len(call.res.list) =
                    (IF Cardinality(StoredOfKind) < 10 THEN Cardinality(StoredOfKind) ELSE 10)
              /\ \A i \in 1..Len(call.res.list) :
                    \E it \in StoredOfKind :
                        /\ call.res.list[i] = [id |-> it.id, name |-> it.name]
                        /\ Above(it) = i - 1
              /\ \A it \in StoredOfKind :
                    Above(it) >= 10 =>
                        ~\E i \in 1..Len(call.res.list) : call.res.list[i].id = it.id

(* FindAll with limitOverride set, on a partition of 11 items: 10 items   *)
(* come back, "9" first, and "1", the least sort key, is left out.        *)
C12_Witness ==
    /\ call.conn = "dynamo" /\ call.op = "FindAll" /\ call.kind = "item"
    /\ call.filter.Pagination.LimitOverride
    /\ call.res.dbErr = Ok /\ call.res.err = NoError
    /\ Cardinality(StoredOfKind) = 11
    /\ Len(call.res.list) = 10
    /\ call.res.list[1].id = "9"
    /\ call.res.list[10].id = "10"
    /\ ~\E i \in 1..10 : call.res.list[i].id = "1"

-----------------------------------------------------------------------------
(* Properties of the adapters' failure handling.                           *)

Reads == {"FindByID", "FindAll"}

(* What every call does, whatever the store's answer: at most one store    *)
(* operation; a Create that returns an error has either issued no put (its *)
(* serialization failed) or had its put refused, its error is "failed to   *)
(* insert " and the table is as before; a Create that returns no error has *)
(* put once.  The primed variables are the call just made.                 *)
OneAttempt ==
    /\ Len(call'.res.ops) <= 1
    /\ call'.op \in Reads => (Len(call'.res.ops) = 1 /\ db' = db)
    /\ call'.op = "Create" =>
          /\ call'.res.err \in {NoError, "failed to insert "}
          /\ call'.res.err = NoError =>
                (call'.res.ops = <<"PutItem">> /\ call'.res.dbErr = Ok)
          /\ call'.res.err # NoError =>
                /\ db' = db
                /\ call'.res.dbErr = Ok => call'.res.ops = << >>
                /\ call'.res.dbErr # Ok => call'.res.ops = <<"PutItem">>

(* C13 as stated: whenever the store operation fails, the call returns an  *)
(* error.                                                                  *)
C13_AsStated ==
    [][/\ OneAttempt
       /\ call'.res.dbErr # Ok => call'.res.err # NoError]_vars

(* C13: no retries and no partial work.  Every call issues at most one     *)
(* store operation.  When the operation fails with anything but the        *)
(* store's not-found error, the call returns an error; FindByID and        *)
(* FindAll turn the not-found error into the zero value or the empty list  *)
(* and no error, Create into "failed to insert ".  A Create whose          *)
(* serialization fails returns "failed to insert " without a put, and a    *)
(* Create whose put fails leaves the table as it was.                      *)
C13_NoRetries ==
    [][/\ OneAttempt
       /\ (call'.res.dbErr # Ok /\ ~(call'.op \in Reads /\ IsNotFound(call'.res.dbErr)))
             => call'.res.err # NoError
       /\ (call'.op \in Reads /\ IsNotFound(call'.res.dbErr))
             => (call'.res.err = NoError /\ call'.res.ret = ZeroT
                 /\ call'.res.list = << >>)]_vars

(* A Create of the dynamo adapter whose put failed in transit: one put,    *)
(* the error "failed to insert ", and the item stored under its key is     *)
(* still the other resource.                                               *)
C13_Witness ==
    /\ call.conn = "dynamo" /\ call.op = "Create"
    /\ call.res.dbErr = InternalServerError
    /\ call.res.ops = <<"PutItem">>
    /\ call.res.err = "failed to insert "
    /\ \E it \in db.items :
          it.PK = call.kind /\ it.id = call.id /\ it.name # call.r.name
    /\ ~\E it \in db.items :
          it.PK = call.kind /\ it.id = call.id /\ it.name = call.r.name

(* A Create whose serialization failed: no store operation at all. *)
C13_SerializeWitness ==
    /\ call.conn = "dynamo" /\ call.op = "Create"
    /\ call.res.ops = << >>
    /\ call.res.err = "failed to insert "
    /\ db.exists /\ ~\E it \in db.items : it.PK = call.kind /\ it.id = call.id

(* A FindByID on a table that does not exist: the store's not-found error  *)
(* comes back as the zero value and no error.                              *)
C13_NotFoundWitness ==
    /\ call.conn = "dynamo" /\ call.op = "FindByID"
    /\ call.res.dbErr = ResourceNotFoundException
    /\ call.res.err = NoError /\ call.res.ret = ZeroT

-----------------------------------------------------------------------------
(* Properties of the REST layer.                                           *)

InHandler == req.handler.does # "none"

Logged(step) == \E i \in 1..Len(req.log) : req.log[i] = step

(* Step a of the log comes before its step number i. *)
LoggedBefore(step, i) == \E j \in 1..(i - 1) : req.log[j] = step

DecodeFailed == req.handler.does = "create" /\ Logged("decode") /\ req.dec.err # NoError

CapabilityFailed == call # NoCall /\ call.res.err # NoError

(* C8: a create request whose body does not decode is answered 400 with a *)
(* non-empty body and the capability is not invoked, so no store operation *)
(* is issued; in every request the capability call comes after a           *)
(* successful decode and the response is written after the call returned.  *)
C8_DecodeBeforeCall ==
    /\ DecodeFailed =>
          /\ req.pc = "done"
          /\ req.resp.status = StatusBadRequest
          /\ req.resp.text # ""
          /\ ~Logged("call")
          /\ call = NoCall
    /\ Logged("call") <=> call # NoCall
    /\ \A i \in 1..Len(req.log) :
          /\ (req.log[i] = "call" /\ req.handler.does = "create")
                => (LoggedBefore("decode", i) /\ req.dec.err = NoError)
          /\ req.log[i] \in {"encode", "error"} => LoggedBefore("call", i)
          /\ req.log[i] = "encode" => call.res.err = NoError
    /\ (InHandler /\ req.resp.status = StatusOK) => Logged("encode")

C8_Witness ==
    /\ req.pc = "done"
    /\ req.method = "POST" /\ req.path = <<"items", "">>
    /\ req.handler.does = "create"
    /\ ~req.body.json
    /\ req.dec.err = "unable to unmarshal body"
    /\ req.resp.status = StatusBadRequest /\ req.resp.text = "invalid resource"
    /\ call = NoCall
    /\ db.items # {}

(* The message a handler writes with an error status. *)
ErrorText(does, status) ==
    IF status = StatusBadRequest THEN "invalid resource"
    ELSE IF does = "create" THEN "unable to create resource"
    ELSE "unable to find resource"

(* C9: a handler answers 400 exactly when the body failed to decode, 500  *)
(* exactly when its capability call returned an error, and 200 otherwise   *)
(* (also for a FindByID that found nothing, which carries the zero value); *)
(* an error body is the handler's fixed plain-text message, whatever the   *)
(* underlying error.                                                       *)
C9_ErrorMapping ==
    (req.pc = "done" /\ InHandler) =>
        /\ req.resp.status = IF DecodeFailed THEN StatusBadRequest
                             ELSE IF CapabilityFailed THEN StatusInternalServerError
                             ELSE StatusOK
        /\ req.resp.status # StatusOK =>
              /\ req.resp.ctype = "text/plain; charset=utf-8"
              /\ req.resp.text = ErrorText(req.handler.does, req.resp.status)
              /\ req.resp.shape = "none" /\ req.resp.payload = << >>
        /\ (/\ req.handler.does = "findByID"
            /\ call.res.dbErr \in {Ok, ResourceNotFoundException}
            /\ ~\E it \in db.items : it.PK = req.handler.repo /\ it.id = req.id)
              => /\ req.resp.status = StatusOK
                 /\ req.resp.payload = <<ZeroT>>

C9_Witness ==
    /\ req.pc = "done"
    /\ req.handler.does = "findByID"
    /\ call.res.dbErr = Ok
    /\ db.items # {}
    /\ ~\E it \in db.items : it.PK = req.handler.repo /\ it.id = req.id
    /\ req.resp.status = StatusOK
    /\ req.resp.payload = <<ZeroT>>

(* A 500 whose underlying error is the decoding of a stored item. *)
C9_ScanErrorWitness ==
    /\ req.pc = "done"
    /\ call.res.err = "failed to scan "
    /\ req.resp.status = StatusInternalServerError
    /\ req.resp.text = "unable to find resource"

GetItemsSpecial == req.pc # "idle" /\ req.method = "GET" /\ req.path = <<"items", "special">>

(* C10 as stated: with "items" mounted before "items/special", GET        *)
(* /items/special is dispatched to a handler of the second controller.     *)
C10_AsStated == GetItemsSpecial => req.controller = 2

(* C10, amended: with "items" mounted before "items/special", GET         *)
(* /items/special is dispatched to the FIRST controller's {id} handler     *)
(* with id = "special"; no route of the second controller matches that     *)
(* path.                                                                   *)
C10_MountPrecedence ==
    GetItemsSpecial =>
        /\ req.controller = 1
        /\ req.handler = Controllers[1].Handlers[2]
        /\ req.handler.does = "findByID" /\ req.handler.repo = "item"
        /\ req.id = "special"
        /\ \A i \in 1..Len(Router[2].routes) :
              ~TemplateMatches(Router[2].routes[i].template, req.path)

C10_Witness ==
    /\ GetItemsSpecial
    /\ req.pc = "done"
    /\ req.handler.name = <<"findbyIDHandler", "Item">>
    /\ call.op = "FindByID" /\ call.kind = "item" /\ call.id = "special"
    /\ req.resp.status = StatusOK

(* The second controller serves the paths below its own root. *)
SecondControllerServesItsPaths ==
    (req.pc # "idle" /\ req.method = "GET" /\ Len(req.path) = 3
        /\ SubSeq(req.path, 1, 2) = <<"items", "special">>)
        => req.controller = 2

====
